---- MODULE Spec2Model ----
(***************************************************************************)
(* A model of putToPostgres (src/src/put-to-postgres.js): the per-         *)
(* collection transform pipeline, the idempotent upsert by mongo_id, the   *)
(* link-table stage, the knex transaction around them and the in-memory    *)
(* idsRegistry shared between calls.                                       *)
(*                                                                         *)
(* The target store is PostgreSQL driven through knex.  What the model     *)
(* takes from it: a transaction is atomic (rollback restores the tables),  *)
(* mongo_id is unique in a table (the column the code adds at lines        *)
(* 160-166), ids come from a serial sequence (table.increments) that a     *)
(* rollback does not rewind, a statement that fails inside a transaction   *)
(* leaves the transaction aborted (later statements fail and COMMIT ends   *)
(* it as a rollback without an error), and any statement may fail for a    *)
(* reason of the store's own (a constraint, a missing column, the          *)
(* connection).                                                            *)
(***************************************************************************)
EXTENDS Integers, Sequences, FiniteSets, TLC

(***************************************************************************)
(* JavaScript values.  Every value is a record of the same shape so that   *)
(* any two can be compared: k is the kind, s a string, n a number, a the   *)
(* elements of an array (values themselves).  A field a record does not    *)
(* have is outside the record's DOMAIN (undefined).                        *)
(***************************************************************************)
Null == [k |-> "null", s |-> "", n |-> 0, a |-> <<>>]

Str(x) == [k |-> "str", s |-> x, n |-> 0, a |-> <<>>]

Num(x) == [k |-> "num", s |-> "", n |-> x, a |-> <<>>]

\* an array of the values x
Arr(x) == [k |-> "arr", s |-> "", n |-> 0, a |-> x]

\* the strings x as values: the elements of an array of source ids
Ids(x) == [i \in 1..Len(x) |-> Str(x[i])]

\* what an operator gives for a step that throws (a TypeError)
Thrown == [k |-> "throw", s |-> "TypeError", n |-> 0, a |-> <<>>]

\* Array.isArray(v)
IsArray(v) == v.k = "arr"

\* v == null (the field exists and holds null)
IsNull(v) == v.k = "null"

\* Boolean(v): "", 0 and null are falsy, an array is truthy
Truthy(v) ==
    \/ v.k = "str" /\ v.s # ""
    \/ v.k = "num" /\ v.n # 0
    \/ v.k = "arr"

\* String(v): the string itself, the decimal digits of a number, "null", and
\* for an array its elements joined by commas (Array.prototype.join: a null
\* element gives the empty string, an array element is joined in its turn)
RECURSIVE StringOf(_)
RECURSIVE JoinFrom(_, _)
JoinFrom(a, i) ==
    IF i > Len(a) THEN ""
    ELSE (IF i > 1 THEN "," ELSE "")
            \o (IF a[i].k = "null" THEN "" ELSE StringOf(a[i]))
            \o JoinFrom(a, i + 1)

StringOf(v) ==
    IF v.k = "str" THEN v.s
    ELSE IF v.k = "num" THEN ToString(v.n)
    ELSE IF v.k = "null" THEN "null"
    ELSE JoinFrom(v.a, 1)

\* Object.prototype.hasOwnProperty.call(r, f)
Has(r, f) == f \in DOMAIN r

\* String(r.mongo_id): "undefined" for a record without the field
MongoIdString(r) == IF Has(r, "mongo_id") THEN StringOf(r["mongo_id"]) ELSE "undefined"

\* r.mongo_id is truthy
HasMongoId(r) == Has(r, "mongo_id") /\ Truthy(r["mongo_id"])

\* delete r[f]
Without(r, f) == [g \in (DOMAIN r) \ {f} |-> r[g]]

\* r[f] = v for an object with the own properties r that has Object.prototype
\* in its prototype chain (inherits) or has no prototype.  The name "__proto__",
\* where r does not own it but inherits it, is the setter of Object.prototype:
\* r gets no property
With(r, inherits, f, v) ==
    IF f = "__proto__" /\ inherits /\ ~Has(r, f) THEN r
    ELSE [g \in (DOMAIN r) \cup {f} |-> IF g = f THEN v ELSE r[g]]

\* whether the object has Object.prototype in its chain after r[f] = v: the
\* inherited setter takes null as the new prototype (none), an array as the new
\* prototype (which inherits from Object.prototype), and ignores a string or a
\* number
InheritsAfter(r, inherits, f, v) ==
    IF f = "__proto__" /\ inherits /\ ~Has(r, f) THEN ~IsNull(v) ELSE inherits

\* r[f] = v for a field that r owns
Assigned(r, f, v) == [r EXCEPT ![f] = v]

(***************************************************************************)
(* The Translation Registry: idsRegistry is a plain object whose own keys   *)
(* are collection names, each holding a Map from mongo_id to sql id; keys  *)
(* is the order Object.entries walks them in: the keys that are array      *)
(* indices first, in ascending order, then the others in insertion order.  *)
(* A plain object also answers to the names it inherits from               *)
(* Object.prototype, with values that are truthy and are no Map.           *)
(***************************************************************************)
EmptyMap == [x \in {} |-> 0]

EmptyRegistry == [keys |-> <<>>, maps |-> [c \in {} |-> EmptyMap]]

\* the property names every plain object inherits
ObjectPrototypeNames ==
    {"constructor", "toString", "toLocaleString", "valueOf", "hasOwnProperty",
     "isPrototypeOf", "propertyIsEnumerable", "__proto__", "__defineGetter__",
     "__defineSetter__", "__lookupGetter__", "__lookupSetter__"}

\* the collection has a Map of its own in the registry
OwnMap(reg, c) == c \in DOMAIN reg.maps

\* idsRegistry[c] is truthy: a Map of the registry, or an inherited property
HasMap(reg, c) == OwnMap(reg, c) \/ c \in ObjectPrototypeNames

\* the entries of a collection's Map, none when it has no Map (an inherited
\* property is no Map and has no entries)
MapOf(reg, c) == IF OwnMap(reg, c) THEN reg.maps[c] ELSE EmptyMap

\* the value of a decimal digit
DigitOf(ch) ==
    CASE ch = "0" -> 0 [] ch = "1" -> 1 [] ch = "2" -> 2 [] ch = "3" -> 3
      [] ch = "4" -> 4 [] ch = "5" -> 5 [] ch = "6" -> 6 [] ch = "7" -> 7
      [] ch = "8" -> 8 [] ch = "9" -> 9 [] OTHER -> -1

\* digit strings c and d of one length: c writes the smaller number (the first
\* digit from i in which they differ is smaller in c)
RECURSIVE DigitsLess(_, _, _)
DigitsLess(c, d, i) ==
    IF i > Len(c) THEN FALSE
    ELSE IF SubSeq(c, i, i) = SubSeq(d, i, i) THEN DigitsLess(c, d, i + 1)
    ELSE DigitOf(SubSeq(c, i, i)) < DigitOf(SubSeq(d, i, i))

\* canonical decimal strings c and d: c writes the smaller number
IndexLess(c, d) == Len(c) < Len(d) \/ (Len(c) = Len(d) /\ DigitsLess(c, d, 1))

\* the key is an array index: the canonical decimal form of an integer in
\* 0..2^32-2 (no sign, no leading zero)
IsArrayIndex(str) ==
    /\ Len(str) \in 1..10
    /\ \A i \in 1..Len(str) : DigitOf(SubSeq(str, i, i)) >= 0
    /\ Len(str) > 1 => SubSeq(str, 1, 1) # "0"
    /\ ~IndexLess("4294967294", str)

\* key c comes before key d in the order of Object.entries, d already a key
\* and c the newest
KeyBefore(c, d) == IsArrayIndex(c) /\ (~IsArrayIndex(d) \/ IndexLess(c, d))

\* the keys of the object after the new key c is added
InsertKey(keys, c) ==
    LET after == {i \in 1..Len(keys) : KeyBefore(c, keys[i])}
        n == Len(keys) - Cardinality(after)
    IN SubSeq(keys, 1, n) \o <<c>> \o SubSeq(keys, n + 1, Len(keys))

\* Map.set(key, val)
MapSet(m, key, val) == [x \in (DOMAIN m) \cup {key} |-> IF x = key THEN val ELSE m[x]]

\* if (!idsRegistry[self]) idsRegistry[self] = new Map()
EnsureMap(reg, c) ==
    IF HasMap(reg, c) THEN reg
    ELSE [keys |-> InsertKey(reg.keys, c),
          maps |-> [d \in (DOMAIN reg.maps) \cup {c} |->
                       IF d = c THEN EmptyMap ELSE reg.maps[d]]]

\* idsRegistry[c].set(key, val)
RegistrySet(reg, c, key, val) ==
    [reg EXCEPT !.maps[c] = MapSet(reg.maps[c], key, val)]

(***************************************************************************)
(* PutOptions.  rename, redefine, foreignKeys and links are objects; each  *)
(* is modelled by the sequence of its entries in key order, which is the   *)
(* order Object.entries walks them.  A mapper or a transform is named by   *)
(* what it does.                                                           *)
(***************************************************************************)
\* what a caller's redefine mapper returns for the value v of record r:
\* [ok |-> FALSE] when it throws
LowerCase == "abcdefghijklmnopqrstuvwxyz"

UpperCase == "ABCDEFGHIJKLMNOPQRSTUVWXYZ"

\* the upper-case form of one character: of a letter a-z, and the character
\* itself otherwise (characters outside ASCII are not modelled)
UpperChar(ch) ==
    LET at == {i \in 1..Len(LowerCase) : SubSeq(LowerCase, i, i) = ch}
    IN IF at = {} THEN ch
       ELSE LET i == CHOOSE n \in at : TRUE IN SubSeq(UpperCase, i, i)

\* x.toUpperCase(), from character i
RECURSIVE UpperFrom(_, _)
UpperFrom(x, i) ==
    IF i > Len(x) THEN ""
    ELSE UpperChar(SubSeq(x, i, i)) \o UpperFrom(x, i + 1)

Upper(x) == UpperFrom(x, 1)

ApplyMapper(mapper, v, r) ==
    CASE mapper = "upper" ->
            \* (v) => v.toUpperCase(): a TypeError on anything but a string
            IF v.k = "str" THEN [ok |-> TRUE, v |-> Str(Upper(v.s))]
            ELSE [ok |-> FALSE, v |-> v]
      [] mapper = "wrap" ->
            \* (v) => [v]: an array of the one value
            [ok |-> TRUE, v |-> Arr(<<v>>)]
      [] OTHER ->
            \* "fail": () => { throw new Error(...) }
            [ok |-> FALSE, v |-> v]

\* rename stage, entries i..Len(rename)
RECURSIVE RenameFrom(_, _, _, _)
RenameFrom(r, inherits, rename, i) ==
    IF i > Len(rename) THEN r
    ELSE LET oldName == rename[i][1]
             newName == rename[i][2]
         IN IF Has(r, oldName)
            THEN RenameFrom(Without(With(r, inherits, newName, r[oldName]), oldName),
                            InheritsAfter(r, inherits, newName, r[oldName]),
                            rename, i + 1)
            ELSE RenameFrom(r, inherits, rename, i + 1)

\* the rename stage on r = { ...row }, a plain object
RenameStage(r, rename) == RenameFrom(r, TRUE, rename, 1)

\* RedefineFrom, with the try around the whole loop: a mapper that throws ends
\* the stage
RECURSIVE RedefineFromStopsAtThrow(_, _, _)
RedefineFromStopsAtThrow(r, redefine, i) ==
    IF i > Len(redefine) THEN r
    ELSE LET field == redefine[i][1]
             res == ApplyMapper(redefine[i][2], r[field], r)
         IN IF ~Has(r, field) THEN RedefineFromStopsAtThrow(r, redefine, i + 1)
            ELSE IF res.ok THEN RedefineFromStopsAtThrow(Assigned(r, field, res.v), redefine, i + 1)
            ELSE r

\* redefine stage, entries i..Len(redefine); a mapper that throws leaves the field
RECURSIVE RedefineFrom(_, _, _)
RedefineFrom(r, redefine, i) ==
    IF i > Len(redefine) THEN r
    ELSE LET field == redefine[i][1]
             res == ApplyMapper(redefine[i][2], r[field], r)
         IN IF Has(r, field) /\ res.ok
            THEN RedefineFrom(Assigned(r, field, res.v), redefine, i + 1)
            ELSE RedefineFrom(r, redefine, i + 1)

RedefineStage(r, redefine) == RedefineFrom(r, redefine, 1)

\* oldVal.map(id => id == null ? null : fkMap.get(String(id))).filter(v => v != null),
\* from element i
RECURSIVE MappedFrom(_, _, _)
MappedFrom(ids, fkMap, i) ==
    IF i > Len(ids) THEN <<>>
    ELSE IF ~IsNull(ids[i]) /\ StringOf(ids[i]) \in DOMAIN fkMap
         THEN <<fkMap[StringOf(ids[i])]>> \o MappedFrom(ids, fkMap, i + 1)
         ELSE MappedFrom(ids, fkMap, i + 1)

\* ForeignKeyValue, looking the id up in no Map at all
ForeignKeyValueNeverFound(oldVal, foreignCollection, reg) == Null

\* the value the foreign-key stage leaves in a field that holds oldVal; Thrown
\* when fkMap is an inherited property: fkMap.get is no function (an empty
\* array calls it for no element)
ForeignKeyValue(oldVal, foreignCollection, reg) ==
    IF ~HasMap(reg, foreignCollection) THEN Null
    ELSE IF ~OwnMap(reg, foreignCollection)
    THEN (IF IsArray(oldVal) /\ \A i \in 1..Len(oldVal.a) : IsNull(oldVal.a[i])
          THEN Null ELSE Thrown)
    ELSE LET fkMap == reg.maps[foreignCollection]
         IN IF IsArray(oldVal)
            THEN LET mapped == MappedFrom(oldVal.a, fkMap, 1)
                 IN IF mapped = <<>> THEN Null ELSE Num(mapped[1])
            ELSE IF StringOf(oldVal) \in DOMAIN fkMap
                 THEN Num(fkMap[StringOf(oldVal)])
                 ELSE Null

\* foreign keys mapping, entries i..Len(foreignKeys); Thrown when a lookup throws
RECURSIVE ForeignKeysFrom(_, _, _, _)
ForeignKeysFrom(r, foreignKeys, reg, i) ==
    IF i > Len(foreignKeys) THEN r
    ELSE LET field == foreignKeys[i][1]
         IN IF ~Has(r, field) \/ IsNull(r[field])
            THEN ForeignKeysFrom(r, foreignKeys, reg, i + 1)
            ELSE IF ForeignKeyValue(r[field], foreignKeys[i][2], reg) = Thrown
            THEN Thrown
            ELSE ForeignKeysFrom(
                   Assigned(r, field, ForeignKeyValue(r[field], foreignKeys[i][2], reg)),
                   foreignKeys, reg, i + 1)

ForeignKeyStage(r, foreignKeys, reg) == ForeignKeysFrom(r, foreignKeys, reg, 1)

\* the array fields `links` declares
LinkFields(links) == {links[i].field : i \in 1..Len(links)}

\* links[key] is truthy: a declared field, or a name the object inherits
LinksHas(links, key) == key \in LinkFields(links) \/ key \in ObjectPrototypeNames

\* drop array fields that are not handled by links
DropArrays(r, links) ==
    [f \in {g \in DOMAIN r : ~(IsArray(r[g]) /\ ~LinksHas(links, g))} |-> r[f]]

\* the record as the foreign-key stage receives it
Renamed(row, opts) == RedefineStage(RenameStage(row, opts.rename), opts.redefine)

\* rows.map((row) => { ... return r; }) for one row; Thrown when a lookup throws
Transform(row, opts, reg) ==
    LET r == ForeignKeyStage(Renamed(row, opts), opts.foreignKeys, reg)
    IN IF r = Thrown THEN Thrown ELSE DropArrays(r, opts.links)

\* let r = row: the stages work on the caller's record itself
SpreadShared(heap, row) == [r |-> row, heap |-> heap]

\* line 174, let r = { ...row }: a new object with the own properties of row.
\* heap holds the objects there are, an object's reference being its index
Spread(heap, row) == [r |-> Len(heap) + 1, heap |-> Append(heap, heap[row])]

\* rows.map at lines 173-238 from row i of n, the caller's records being the
\* objects 1..n: the stages assign to and delete from r, and r is returned.
\* When a lookup throws the map ends and its objects are unreachable
RECURSIVE MapFrom(_, _, _, _, _)
MapFrom(heap, n, opts, reg, i) ==
    IF i > n THEN [heap |-> heap, refs |-> <<>>, threw |-> FALSE]
    ELSE LET c == Spread(heap, i)
             t == Transform(c.heap[c.r], opts, reg)
         IN IF t = Thrown
            THEN [heap |-> heap, refs |-> <<>>, threw |-> TRUE]
            ELSE LET rest == MapFrom([c.heap EXCEPT ![c.r] = t], n, opts, reg, i + 1)
                 IN [heap |-> rest.heap, refs |-> <<c.r>> \o rest.refs, threw |-> rest.threw]

RowsMap(rows, opts, reg) == MapFrom(rows, Len(rows), opts, reg, 1)

\* the caller's records after rows.map
RowsAfterTransform(rows, opts, reg) == SubSeq(RowsMap(rows, opts, reg).heap, 1, Len(rows))

\* const prepared = rows.map(...): the objects the map returned
prepared(rows, opts, reg) ==
    LET m == RowsMap(rows, opts, reg)
    IN [i \in 1..Len(m.refs) |-> m.heap[m.refs[i]]]

\* rows.map throws: the transform of a row throws
PreparedThrows(rows, opts, reg) == RowsMap(rows, opts, reg).threw

(***************************************************************************)
(* The idempotency split.  A table is a set of rows [id, rec].             *)
(***************************************************************************)
\* prepared.map((r) => r.mongo_id).filter(Boolean), as a set
mongoIds(prep) == {StringOf(prep[i]["mongo_id"]) : i \in {j \in 1..Len(prep) : HasMongoId(prep[j])}}

\* existing, with the where clause on a column that never matches a mongo_id
existingWrongColumn(tableRows, ids) == {}

\* select id, mongo_id from table where mongo_id in (mongoIds)
existing(tableRows, ids) ==
    {[id |-> x.id, mongo_id |-> StringOf(x.rec["mongo_id"])] :
        x \in {y \in tableRows : HasMongoId(y.rec) /\ StringOf(y.rec["mongo_id"]) \in ids}}

\* new Map(existing.map((x) => [x.mongo_id, x.id])); mongo_id is unique in the table
existingMap(ex) ==
    [m \in {x.mongo_id : x \in ex} |-> (CHOOSE x \in ex : x.mongo_id = m).id]

\* existingMap.has(r.mongo_id): the keys are the strings the store returned, and
\* Map.has compares without conversion, so only a string is found
MapHasRaw(exMap, v) == v.k = "str" /\ v.s \in DOMAIN exMap

\* r.mongo_id && existingMap.has(r.mongo_id)
InExisting(r, exMap) == HasMongoId(r) /\ MapHasRaw(exMap, r["mongo_id"])

\* r.mongo_id && !existingMap.has(r.mongo_id)
NotInExisting(r, exMap) == HasMongoId(r) /\ ~MapHasRaw(exMap, r["mongo_id"])

toInsert(prep, exMap) == LET keep(r) == NotInExisting(r, exMap) IN SelectSeq(prep, keep)

toSkip(prep, exMap) == LET keep(r) == InExisting(r, exMap) IN SelectSeq(prep, keep)

\* RegisterSkipped, with the skip partition left out of the registry
RegisterSkippedNothing(reg, self, skip, exMap, i) == reg

\* for (const r of toSkip) idsRegistry[self].set(r.mongo_id, existingMap.get(r.mongo_id))
RECURSIVE RegisterSkipped(_, _, _, _, _)
RegisterSkipped(reg, self, skip, exMap, i) ==
    IF i > Len(skip) THEN reg
    ELSE RegisterSkipped(
           RegistrySet(reg, self, StringOf(skip[i]["mongo_id"]),
                       exMap[StringOf(skip[i]["mongo_id"])]),
           self, skip, exMap, i + 1)

\* the rows the batched insert returns: ids from the table's sequence, in order
inserted(batch, firstId) ==
    [i \in 1..Len(batch) |-> [id |-> firstId + i - 1, rec |-> batch[i]]]

\* for (const row of inserted) idsRegistry[self].set(String(row.mongo_id), Number(row.id))
RECURSIVE RegisterInserted(_, _, _, _)
RegisterInserted(reg, self, ins, i) ==
    IF i > Len(ins) THEN reg
    ELSE RegisterInserted(
           RegistrySet(reg, self, MongoIdString(ins[i].rec), ins[i].id),
           self, ins, i + 1)

\* the unique index on mongo_id rejects the batch: a mongo_id already in the
\* table, or twice in the batch
UniqueViolation(tableRows, batch) ==
    \/ \E i \in 1..Len(batch) : \E x \in tableRows :
          HasMongoId(x.rec) /\ MongoIdString(x.rec) = MongoIdString(batch[i])
    \/ \E i, j \in 1..Len(batch) : i < j /\ MongoIdString(batch[i]) = MongoIdString(batch[j])

(***************************************************************************)
(* The link stage: link rows are built from the original rows and the      *)
(* registry as it stands after the upsert.  A link row is a record of its  *)
(* columns.                                                                *)
(***************************************************************************)
\* for (const [collectionName, idMap] of Object.entries(idsRegistry)): the first
\* Map, in key order from i, that has String(foreignOldId), here the string
\* foreignOldId; 0 (no sql id) when none has
RECURSIVE foreignSqlId(_, _, _)
foreignSqlId(reg, foreignOldId, i) ==
    IF i > Len(reg.keys) THEN 0
    ELSE IF foreignOldId \in DOMAIN reg.maps[reg.keys[i]]
         THEN reg.maps[reg.keys[i]][foreignOldId]
         ELSE foreignSqlId(reg, foreignOldId, i + 1)

\* idsRegistry[self].get(String(raw.mongo_id)); 0 when there is none, -1 when
\* the call throws: idsRegistry[self] is an inherited property, no Map
selfSqlId(reg, self, raw) ==
    IF ~OwnMap(reg, self) THEN -1
    ELSE IF MongoIdString(raw) \in DOMAIN reg.maps[self]
    THEN reg.maps[self][MongoIdString(raw)]
    ELSE 0

\* { ...base, ...extra }: the optional transform adds columns; "fail" throws.
\* Of a column named twice the later value stays: foreignIdCol over selfIdCol,
\* the transform's columns over both
LinkRow(link, selfId, foreignId) ==
    IF link.transform = "tag"
    THEN ("kind" :> 1) @@ (link.foreignIdCol :> foreignId) @@ (link.selfIdCol :> selfId)
    ELSE (link.foreignIdCol :> foreignId) @@ (link.selfIdCol :> selfId)

\* ElementLinks, writing a link with no foreign id for an element it cannot resolve
RECURSIVE ElementLinksNoSkip(_, _, _, _, _)
ElementLinksNoSkip(link, reg, selfId, elems, i) ==
    IF i > Len(elems) THEN <<>>
    ELSE <<LinkRow(link, selfId, foreignSqlId(reg, StringOf(elems[i]), 1))>>
            \o ElementLinksNoSkip(link, reg, selfId, elems, i + 1)

\* the inner loop over raw[arrayField], from element i
RECURSIVE ElementLinks(_, _, _, _, _)
ElementLinks(link, reg, selfId, elems, i) ==
    IF i > Len(elems) THEN <<>>
    ELSE LET fid == foreignSqlId(reg, StringOf(elems[i]), 1)
         IN IF fid = 0
            THEN ElementLinks(link, reg, selfId, elems, i + 1)
            ELSE <<LinkRow(link, selfId, fid)>> \o ElementLinks(link, reg, selfId, elems, i + 1)

\* the row has a non-empty array in the link's field
HasLinkArray(link, raw) ==
    Has(raw, link.field) /\ IsArray(raw[link.field]) /\ raw[link.field].a # <<>>

\* the link rows of one original row: none without a non-empty array or an own sql id
RowLinks(link, reg, self, raw) ==
    IF ~HasLinkArray(link, raw) THEN <<>>
    ELSE IF selfSqlId(reg, self, raw) <= 0 THEN <<>>
         ELSE ElementLinks(link, reg, selfSqlId(reg, self, raw), raw[link.field].a, 1)

\* linkRows of one link field, over rows i..Len(rows)
RECURSIVE linkRows(_, _, _, _, _)
linkRows(link, reg, self, rows, i) ==
    IF i > Len(rows) THEN <<>>
    ELSE RowLinks(link, reg, self, rows[i]) \o linkRows(link, reg, self, rows, i + 1)

\* building the link rows throws and nothing catches it: the transform, called
\* once per link row built, or the lookup of the row's own id in a registry
\* property that is no Map
TransformThrows(link, reg, self, rows) ==
    \/ link.transform = "fail" /\ linkRows(link, reg, self, rows, 1) # <<>>
    \/ \E i \in 1..Len(rows) : HasLinkArray(link, rows[i]) /\ selfSqlId(reg, self, rows[i]) = -1

(***************************************************************************)
(* The inputs of the calls: the collections of a small company, as the     *)
(* extractor returns them (plain records with mongo_id), and the options   *)
(* a caller passes for each.                                               *)
(***************************************************************************)
Tables == {"departments", "awards", "employees"}

LinkTables == {"emplyees__awards"}

D1 == ("mongo_id" :> Str("d1")) @@ ("name" :> Str("Eng"))

D2 == ("mongo_id" :> Str("d2")) @@ ("name" :> Str("Ops")) @@ ("tags" :> Arr(Ids(<<"x">>)))

\* a department whose mongo_id is also the mongo_id of an award
DA == ("mongo_id" :> Str("a1")) @@ ("name" :> Str("Lab"))

A1 == ("mongo_id" :> Str("a1")) @@ ("name" :> Str("Star"))

\* an award that refers to a record of another collection
A3 == ("mongo_id" :> Str("a3")) @@ ("name" :> Str("Cup")) @@ ("sponsor" :> Str("c1"))

A2 == ("mongo_id" :> Str("a2")) @@ ("name" :> Str("Hero"))

E1 == ("mongo_id" :> Str("e1")) @@ ("name" :> Str("Ann")) @@ ("dept" :> Str("d1"))
        @@ ("award_ids" :> Arr(Ids(<<"a1", "a2">>))) @@ ("nick" :> Str("an"))

E2 == ("mongo_id" :> Str("e2")) @@ ("name" :> Str("Bob")) @@ ("dept" :> Str("d9"))
        @@ ("award_ids" :> Arr(Ids(<<"a1", "a9">>))) @@ ("tags" :> Arr(Ids(<<"t">>)))

\* an employee whose name is null: (v) => v.toUpperCase() throws on it; it has
\* an array field named like a property of Object.prototype
E3 == ("mongo_id" :> Str("e3")) @@ ("name" :> Null) @@ ("dept" :> Str("d1"))
        @@ ("nick" :> Str("ed")) @@ ("constructor" :> Arr(Ids(<<"x">>)))

E4 == ("mongo_id" :> Str("e4")) @@ ("name" :> Str("Cy")) @@ ("dept" :> Arr(Ids(<<"d9", "d2">>)))
        @@ ("award_ids" :> Arr(Ids(<<"a2", "a2">>)))

\* an employee without mongo_id
EX == ("name" :> Str("Tmp")) @@ ("dept" :> Null) @@ ("award_ids" :> Arr(Ids(<<"a1">>)))

NoOptions == [rename |-> <<>>, redefine |-> <<>>, foreignKeys |-> <<>>, links |-> <<>>]

DeptOptions ==
    [rename |-> <<<<"name", "title">>>>,
     redefine |-> <<<<"title", "upper">>>>,
     foreignKeys |-> <<>>,
     links |-> <<>>]

AwardLink(transform) ==
    [field |-> "award_ids", table |-> "emplyees__awards",
     selfIdCol |-> "employee_id", foreignIdCol |-> "award_id", transform |-> transform]

EmpOptions(transform) ==
    [rename |-> <<<<"dept", "department">>>>,
     redefine |-> <<<<"name", "upper">>, <<"nick", "wrap">>>>,
     foreignKeys |-> <<<<"department", "departments">>>>,
     links |-> <<AwardLink(transform)>>]

\* the convention of the comment at lines 279-282: the array field of links has
\* a twin entry in foreignKeys that names the collection it points to
EmpTwinOptions ==
    [rename |-> <<<<"dept", "department">>>>,
     redefine |-> <<>>,
     foreignKeys |-> <<<<"department", "departments">>, <<"award_ids", "awards">>>>,
     links |-> <<AwardLink("none")>>]

\* two renames to the name of the prototype accessor, and a foreign key
ProtoOptions ==
    [rename |-> <<<<"name", "__proto__">>, <<"nick", "__proto__">>>>,
     redefine |-> <<>>,
     foreignKeys |-> <<<<"dept", "departments">>>>,
     links |-> <<>>]

\* a foreign key into a collection named like a property of Object.prototype
SponsorOptions ==
    [rename |-> <<>>,
     redefine |-> <<>>,
     foreignKeys |-> <<<<"sponsor", "constructor">>>>,
     links |-> <<>>]

\* a call: isArray is Array.isArray(rows)
Job(table, rows, opts) ==
    [table |-> table, self |-> table, rows |-> rows, isArray |-> TRUE, opts |-> opts]

\* a call whose selfCollectionName is not the table's name
NamedJob(table, self, rows, opts) ==
    [table |-> table, self |-> self, rows |-> rows, isArray |-> TRUE, opts |-> opts]

\* a call whose rows argument is no array (undefined, null, a single record)
NotArrayJob(table, opts) ==
    [table |-> table, self |-> table, rows |-> <<>>, isArray |-> FALSE, opts |-> opts]

\* the guard at line 146, left out
NothingToInsertNever(job) == FALSE

\* !Array.isArray(rows) || rows.length === 0
NothingToInsert(job) == ~job.isArray \/ Len(job.rows) = 0

Jobs ==
    {Job("departments", <<D1, D2>>, DeptOptions),
     Job("departments", <<D2, D2>>, NoOptions),
     Job("departments", <<D1, DA>>, NoOptions),
     Job("employees", <<E1, E3>>, ProtoOptions),
     NamedJob("departments", "constructor", <<D1>>, NoOptions),
     Job("awards", <<A3>>, SponsorOptions),
     Job("awards", <<A1, A2>>, NoOptions),
     Job("awards", <<>>, NoOptions),
     NotArrayJob("departments", DeptOptions),
     Job("employees", <<E1>>, EmpOptions("none")),
     Job("employees", <<E1>>, EmpOptions("fail")),
     Job("employees", <<E3, E2>>, EmpOptions("tag")),
     Job("employees", <<EX, E4>>, EmpOptions("none")),
     Job("employees", <<E1>>, EmpTwinOptions)}

\* how many calls of putToPostgres a behaviour makes
MaxCalls == 3

(***************************************************************************)
(* The state.  db is the target store as the open connection sees it;      *)
(* seq the tables' id sequences; idsRegistry the caller's registry; pc     *)
(* the place of the call in progress (the call gives way at each await: a  *)
(* step of the model is the code between two of them); args, prep, batch,  *)
(* skipped, li and trxAborted the call's locals and its transaction; snap  *)
(* the store at BEGIN.  given holds the records as the caller passed them, args.rows the *)
(* same records as the call leaves them.                                   *)
(* regBefore, outcome, failedAt, linkLog, done, rerun and calls            *)
(* record what happened, for the properties: done holds the calls that     *)
(* committed, rerun whether the call in args repeats the table and rows    *)
(* of one of them.                                                         *)
(***************************************************************************)
VARIABLES db, seq, idsRegistry, pc, args, prep, batch, skipped, li, trxAborted,
          snap, regBefore, outcome, failedAt, linkLog, done, rerun, given, calls

vars == <<db, seq, idsRegistry, pc, args, prep, batch, skipped, li, trxAborted,
          snap, regBefore, outcome, failedAt, linkLog, done, rerun, given, calls>>

\* the store as setupDatabase leaves it: empty tables, none with a mongo_id
\* column (cols is the set of tables that have one)
EmptyStore ==
    [tables |-> [t \in Tables |-> {}], links |-> [t \in LinkTables |-> <<>>], cols |-> {}]

Init ==
    /\ db = EmptyStore
    /\ seq = [t \in Tables |-> 1]
    /\ idsRegistry = EmptyRegistry
    /\ pc = "idle"
    /\ args = Job("departments", <<>>, NoOptions)
    /\ prep = <<>>
    /\ batch = <<>>
    /\ skipped = <<>>
    /\ li = 1
    /\ trxAborted = FALSE
    /\ snap = EmptyStore
    /\ regBefore = EmptyRegistry
    /\ outcome = "none"
    /\ failedAt = "none"
    /\ linkLog = <<>>
    /\ done = {}
    /\ rerun = FALSE
    /\ given = <<>>
    /\ calls = 0

\* the transaction handler threw: knex rolls the transaction back and the call
\* rejects with the error; idsRegistry is left as it is
Rollback(at) ==
    /\ db' = snap
    /\ pc' = "idle"
    /\ outcome' = "error"
    /\ failedAt' = at
    /\ UNCHANGED <<seq, idsRegistry, args, prep, batch, skipped, li, trxAborted,
                   snap, regBefore, linkLog, done, rerun, given, calls>>

\* no call is in progress: the coordinator awaits each call of putToPostgres
\* before it starts the next and leaves the registry and the rows alone
\* meanwhile (collections are processed one at a time)
CallerAwaits == pc = "idle"

\* lines 138-156: the call up to knex.transaction
Begin ==
    /\ CallerAwaits
    /\ calls < MaxCalls
    /\ \E job \in Jobs :
        /\ given' = job.rows
        /\ args' = job
        /\ calls' = calls + 1
        /\ regBefore' = idsRegistry
        /\ rerun' = (\E j \in done : j.table = job.table /\ j.rows = job.rows)
        /\ failedAt' = "none"
        /\ linkLog' = <<>>
        /\ prep' = <<>>
        /\ batch' = <<>>
        /\ skipped' = <<>>
        /\ li' = 1
        /\ trxAborted' = FALSE
        /\ snap' = db
        /\ IF NothingToInsert(job)
           THEN /\ outcome' = "nothing"
                /\ UNCHANGED <<idsRegistry, pc>>
           ELSE /\ outcome' = "running"
                /\ idsRegistry' = EnsureMap(idsRegistry, job.self)
                /\ pc' = "begin"
        /\ UNCHANGED <<db, seq, done>>

\* line 156: BEGIN fails; knex.transaction rejects before the handler runs
TrxFails == pc = "begin" /\ Rollback("begin")

\* lines 156-160: BEGIN is answered, the handler is entered and asks the store
\* whether the table has a mongo_id column
TrxBegun ==
    /\ pc = "begin"
    /\ pc' = "hasColumn"
    /\ UNCHANGED <<db, seq, idsRegistry, args, prep, batch, skipped, li, trxAborted, snap,
                   regBefore, outcome, failedAt, linkLog, done, rerun, given, calls>>

\* lines 160-162 and 167-170: hasColumn is answered; when the column is missing
\* alterTable is submitted; when the statement fails the error is caught and
\* logged, which leaves the transaction aborted
HasColumn ==
    /\ pc = "hasColumn"
    /\ \/ /\ pc' = IF args.table \in db.cols THEN "transform" ELSE "alter"
          /\ UNCHANGED trxAborted
       \/ /\ pc' = "transform"
          /\ trxAborted' = TRUE
    /\ UNCHANGED <<db, seq, idsRegistry, args, prep, batch, skipped, li, snap, regBefore,
                   outcome, failedAt, linkLog, done, rerun, given, calls>>

\* lines 162-170: alterTable is answered: the column is added, with its unique
\* index, or the statement fails and the error is caught and logged
AlterTable ==
    /\ pc = "alter"
    /\ pc' = "transform"
    /\ \/ /\ db' = [db EXCEPT !.cols = @ \cup {args.table}]
          /\ UNCHANGED trxAborted
       \/ /\ trxAborted' = TRUE
          /\ UNCHANGED db
    /\ UNCHANGED <<seq, idsRegistry, args, prep, batch, skipped, li, snap, regBefore,
                   outcome, failedAt, linkLog, done, rerun, given, calls>>

\* lines 173-238: the rows are transformed, with the registry as it is now; a
\* lookup that throws ends the call
Prepare ==
    /\ pc = "transform"
    /\ IF PreparedThrows(args.rows, args.opts, idsRegistry)
       THEN /\ db' = snap
            /\ pc' = "idle"
            /\ outcome' = "error"
            /\ failedAt' = "prepare"
            /\ UNCHANGED prep
       ELSE /\ prep' = prepared(args.rows, args.opts, idsRegistry)
            /\ pc' = "query"
            /\ UNCHANGED <<db, outcome, failedAt>>
    /\ args' = [args EXCEPT !.rows = RowsAfterTransform(args.rows, args.opts, idsRegistry)]
    /\ UNCHANGED <<seq, idsRegistry, batch, skipped, li, trxAborted, snap, regBefore,
                   linkLog, done, rerun, given, calls>>

\* lines 241-253: the existence query answers; the split; the skip partition is
\* registered (set throws when the collection's registry property is no Map);
\* the batched insert is submitted
QueryOk ==
    /\ pc = "query"
    /\ ~trxAborted
    /\ LET exMap == existingMap(existing(db.tables[args.table], mongoIds(prep)))
       IN /\ batch' = toInsert(prep, exMap)
          /\ skipped' = toSkip(prep, exMap)
          /\ IF toSkip(prep, exMap) # <<>> /\ ~OwnMap(idsRegistry, args.self)
             THEN /\ db' = snap
                  /\ pc' = "idle"
                  /\ outcome' = "error"
                  /\ failedAt' = "register"
                  /\ UNCHANGED idsRegistry
             ELSE /\ idsRegistry' = RegisterSkipped(idsRegistry, args.self,
                                                    toSkip(prep, exMap), exMap, 1)
                  /\ pc' = IF toInsert(prep, exMap) # <<>> THEN "insert" ELSE "links"
                  /\ UNCHANGED <<db, outcome, failedAt>>
    /\ UNCHANGED <<seq, args, prep, li, trxAborted, snap, regBefore,
                   linkLog, done, rerun, given, calls>>

\* line 242: the existence query fails
QueryFails == pc = "query" /\ Rollback("query")

\* lines 256-259: the batched insert returns the new rows; they are registered
\* (set throws when the collection's registry property is no Map)
InsertOk ==
    /\ pc = "insert"
    /\ ~UniqueViolation(db.tables[args.table], batch)
    /\ LET ins == inserted(batch, seq[args.table])
       IN /\ seq' = [seq EXCEPT ![args.table] = @ + Len(ins)]
          /\ IF ~OwnMap(idsRegistry, args.self)
             THEN /\ db' = snap
                  /\ pc' = "idle"
                  /\ outcome' = "error"
                  /\ failedAt' = "register"
                  /\ UNCHANGED idsRegistry
             ELSE /\ db' = [db EXCEPT !.tables[args.table] = @ \cup {ins[i] : i \in 1..Len(ins)}]
                  /\ idsRegistry' = RegisterInserted(idsRegistry, args.self, ins, 1)
                  /\ pc' = "links"
                  /\ UNCHANGED <<outcome, failedAt>>
    /\ UNCHANGED <<args, prep, batch, skipped, li, trxAborted, snap, regBefore,
                   linkLog, done, rerun, given, calls>>

\* InsertFails, with the insert's error caught and logged as the link insert's is
InsertErrorCaught ==
    /\ pc = "insert"
    /\ pc' = "links"
    /\ trxAborted' = TRUE
    /\ failedAt' = "insert"
    /\ UNCHANGED <<db, seq, idsRegistry, args, prep, batch, skipped, li, snap,
                   regBefore, outcome, linkLog, done, rerun, given, calls>>

\* line 256: the batched insert fails (the unique index, or the store)
InsertFails == pc = "insert" /\ Rollback("insert")

\* lines 266-299: a link field whose transform throws
LinkThrows ==
    /\ pc = "links"
    /\ li <= Len(args.opts.links)
    /\ TransformThrows(args.opts.links[li], idsRegistry, args.self, args.rows)
    /\ Rollback("transform")

\* the link table's unique index on (selfIdCol, foreignIdCol), where the schema
\* has one, rejects the batch: a pair already in the table, or twice in the batch
LinkConflict(link, stored, built) ==
    \/ \E j \in 1..Len(built) : \E x \in 1..Len(stored) :
          /\ stored[x][link.selfIdCol] = built[j][link.selfIdCol]
          /\ stored[x][link.foreignIdCol] = built[j][link.foreignIdCol]
    \/ \E j \in 1..Len(built) : \E x \in 1..Len(built) :
          /\ j # x
          /\ built[x][link.selfIdCol] = built[j][link.selfIdCol]
          /\ built[x][link.foreignIdCol] = built[j][link.foreignIdCol]

\* the errors trx(linkTable).insert(linkRows) can reject with
LinkErrors(link, stored, built) ==
    {"other"} \cup (IF LinkConflict(link, stored, built) THEN {"duplicate"} ELSE {})

\* LinkStep, with the link insert's error left uncaught
LinkStepFatal ==
    /\ pc = "links"
    /\ li <= Len(args.opts.links)
    /\ ~TransformThrows(args.opts.links[li], idsRegistry, args.self, args.rows)
    /\ LET link == args.opts.links[li]
           built == linkRows(link, idsRegistry, args.self, args.rows, 1)
       IN \/ /\ built = <<>>
             /\ linkLog' = Append(linkLog, [rows |-> built, stored |-> FALSE, error |-> "none"])
             /\ li' = li + 1
             /\ UNCHANGED <<db, pc, outcome, failedAt>>
          \/ /\ built # <<>>
             /\ db' = [db EXCEPT !.links[link.table] = @ \o built]
             /\ linkLog' = Append(linkLog, [rows |-> built, stored |-> TRUE, error |-> "none"])
             /\ li' = li + 1
             /\ UNCHANGED <<pc, outcome, failedAt>>
          \/ /\ built # <<>>
             /\ \E err \in LinkErrors(link, db.links[link.table], built) :
                   linkLog' = Append(linkLog, [rows |-> built, stored |-> FALSE, error |-> err])
             /\ db' = snap
             /\ pc' = "idle"
             /\ outcome' = "error"
             /\ failedAt' = "link"
             /\ UNCHANGED li
    /\ UNCHANGED <<seq, idsRegistry, args, prep, batch, skipped, trxAborted, snap,
                   regBefore, done, rerun, given, calls>>

\* lines 266-309: a link field; its rows are inserted, or the insert fails and
\* the error is caught and logged
LinkStep ==
    /\ pc = "links"
    /\ li <= Len(args.opts.links)
    /\ ~TransformThrows(args.opts.links[li], idsRegistry, args.self, args.rows)
    /\ LET link == args.opts.links[li]
           built == linkRows(link, idsRegistry, args.self, args.rows, 1)
       IN \/ /\ built = <<>>
             /\ linkLog' = Append(linkLog, [rows |-> built, stored |-> FALSE, error |-> "none"])
             /\ UNCHANGED <<db, trxAborted>>
          \/ /\ built # <<>>
             /\ ~trxAborted
             /\ db' = [db EXCEPT !.links[link.table] = @ \o built]
             /\ linkLog' = Append(linkLog, [rows |-> built, stored |-> TRUE, error |-> "none"])
             /\ UNCHANGED trxAborted
          \/ /\ built # <<>>
             /\ \E err \in LinkErrors(link, db.links[link.table], built) :
                   linkLog' = Append(linkLog, [rows |-> built, stored |-> FALSE, error |-> err])
             /\ trxAborted' = TRUE
             /\ UNCHANGED db
    /\ li' = li + 1
    /\ UNCHANGED <<seq, idsRegistry, pc, args, prep, batch, skipped, snap, regBefore,
                   outcome, failedAt, done, rerun, given, calls>>

\* line 311: the handler returns and knex sends COMMIT; an aborted transaction
\* ends as a rollback, and the call resolves either way
Commit ==
    /\ pc = "links"
    /\ li > Len(args.opts.links)
    /\ pc' = "idle"
    /\ IF trxAborted
       THEN /\ db' = snap
            /\ outcome' = "lost"
            /\ UNCHANGED done
       ELSE /\ outcome' = "committed"
            /\ done' = done \cup {args}
            /\ UNCHANGED db
    /\ UNCHANGED <<seq, idsRegistry, args, prep, batch, skipped, li, trxAborted,
                   snap, regBefore, failedAt, linkLog, rerun, given, calls>>

\* line 311: COMMIT is rejected (the connection is lost): knex.transaction
\* rejects, the store has nothing of the transaction, idsRegistry is as it is
CommitFails ==
    /\ pc = "links"
    /\ li > Len(args.opts.links)
    /\ Rollback("commit")

\* the process ends and the migration is started again: the registry is
\* process-lifetime only, the store stays
FreshRun ==
    /\ CallerAwaits
    /\ idsRegistry # EmptyRegistry
    /\ idsRegistry' = EmptyRegistry
    /\ outcome' = "none"
    /\ failedAt' = "none"
    /\ linkLog' = <<>>
    /\ UNCHANGED <<db, seq, pc, args, prep, batch, skipped, li, trxAborted, snap,
                   regBefore, done, rerun, given, calls>>

Next ==
    \/ Begin
    \/ TrxFails
    \/ TrxBegun
    \/ HasColumn
    \/ AlterTable
    \/ Prepare
    \/ QueryOk
    \/ QueryFails
    \/ InsertOk
    \/ InsertFails
    \/ LinkThrows
    \/ LinkStep
    \/ Commit
    \/ CommitFails
    \/ FreshRun

Spec == Init /\ [][Next]_vars

(***************************************************************************)
(* Properties.                                                             *)
(***************************************************************************)
\* the call in args has got past the existence query
PastQuery ==
    \/ pc \in {"insert", "links"}
    \/ pc = "idle" /\ outcome \in {"committed", "lost"}
    \/ pc = "idle" /\ outcome = "error" /\ failedAt \notin {"begin", "prepare", "query"}

\* the prepared rows that carry a mongo_id, in order
WithMongoId(rows) == LET keep(r) == HasMongoId(r) IN SelectSeq(rows, keep)

\* C1: idempotent re-run.  When a call repeats the table and rows of a call that
\* committed (with the registry it left, or with a fresh one), every record that
\* carries a mongo_id is in the skip partition, the insert partition is empty and
\* the table holds the rows it held when the call began.
C1_IdempotentRerun ==
    rerun =>
        /\ db.tables[args.table] = snap.tables[args.table]
        /\ PastQuery => batch = <<>> /\ skipped = WithMongoId(prep)

\* C1 witness: a repeated call with a fresh registry has committed, with records skipped
C1_Witness ==
    /\ rerun
    /\ pc = "idle"
    /\ outcome = "committed"
    /\ regBefore = EmptyRegistry
    /\ Len(skipped) = 2
    /\ Cardinality(db.tables[args.table]) = 2

\* C2: no row is submitted for insertion whose mongo_id is already in the table
\* or appears earlier in the same insert batch.
C2_NoDuplicateSubmitted ==
    pc = "insert" => ~UniqueViolation(db.tables[args.table], batch)

\* C3: registry rollback.  After a call that returned an error, the registry has
\* for the call's collection the entries it had before the call.
C3_RegistryRollback ==
    (pc = "idle" /\ outcome = "error") =>
        MapOf(idsRegistry, args.self) = MapOf(regBefore, args.self)

\* C4: fail-fast store atomicity.  When the existence query or the batched insert
\* fails, the call returns the error and the store is as it was before the call.
C4_FailFastAtomic ==
    (pc = "idle" /\ failedAt \in {"query", "insert"}) =>
        /\ outcome = "error"
        /\ db = snap

\* C4 witness: a batched insert has failed in a call that had rows to skip too
C4_Witness ==
    /\ pc = "idle"
    /\ failedAt = "insert"
    /\ outcome = "error"
    /\ skipped # <<>>
    /\ db.tables[args.table] # {}

\* every entry of the registry is in the registry of the next state, unchanged
RegistryPreserved ==
    \A c \in DOMAIN idsRegistry.maps :
        /\ c \in DOMAIN idsRegistry'.maps
        /\ \A m \in DOMAIN idsRegistry.maps[c] :
              /\ m \in DOMAIN idsRegistry'.maps[c]
              /\ idsRegistry'.maps[c][m] = idsRegistry.maps[c][m]

\* C5: registry append-only.  Within a run (every step but the start of a new
\* process) an entry of the registry is never removed and its target id never
\* changes.
C5_RegistryAppendOnly == [][FreshRun \/ RegistryPreserved]_vars

\* the registry the transform of the call in args read
RegAtTransform == EnsureMap(regBefore, args.self)

\* row i of the call as the foreign-key stage received it
BeforeFk(i) == Renamed(args.rows[i], args.opts)

Range(q) == {q[i] : i \in 1..Len(q)}

\* prepared row i went through the upsert and, once the call has committed, is
\* in the table (as the row the insert wrote when it was in the insert partition)
StillWritten(i) ==
    /\ Len(prep) = Len(args.rows)
    /\ (PastQuery /\ HasMongoId(prep[i])) => prep[i] \in Range(batch) \cup Range(skipped)
    /\ (pc = "idle" /\ outcome = "committed" /\ prep[i] \in Range(batch)) =>
          \E x \in db.tables[args.table] : x.rec = prep[i]

\* C6: FK resolution correctness.  A record whose foreign-key field holds, when it
\* is transformed, a non-null scalar registered for the referenced collection, has
\* in its prepared row, the row submitted for insertion, the registered target id.
C6_FkResolved ==
    /\ \A i \in 1..Len(prep) : \A k \in 1..Len(args.opts.foreignKeys) :
          LET f == args.opts.foreignKeys[k][1]
              c == args.opts.foreignKeys[k][2]
              q == BeforeFk(i)
          IN (/\ Has(q, f)
              /\ q[f].k \in {"str", "num"}
              /\ OwnMap(RegAtTransform, c)
              /\ StringOf(q[f]) \in DOMAIN RegAtTransform.maps[c])
             => /\ Has(prep[i], f)
                /\ prep[i][f] = Num(RegAtTransform.maps[c][StringOf(q[f])])
    /\ \A j \in 1..Len(batch) : batch[j] \in Range(prep)

\* C6 witness: the insert of an employee whose department is registered is submitted
C6_Witness ==
    /\ pc = "insert"
    /\ "d1" \in DOMAIN MapOf(regBefore, "departments")
    /\ \E j \in 1..Len(batch) :
          /\ batch[j]["mongo_id"] = Str("e1")
          /\ batch[j]["department"] = Num(regBefore.maps["departments"]["d1"])

\* the transform of the call in args is over
PastTransform ==
    /\ outcome \notin {"none", "nothing"}
    /\ pc \notin {"begin", "hasColumn", "alter", "transform"}
    /\ failedAt # "begin"

\* C7: warning, not failure.  A record whose foreign-key field holds a value that
\* the referenced collection's Map does not have (a scalar, or an array with no
\* element in the Map), or whose referenced collection has no Map, does not end
\* the call: it is prepared with that field null and is still written.
C7_UnresolvedFkIsNull ==
    PastTransform =>
        \A i \in 1..Len(args.rows) : \A k \in 1..Len(args.opts.foreignKeys) :
            LET f == args.opts.foreignKeys[k][1]
                c == args.opts.foreignKeys[k][2]
                q == BeforeFk(i)
            IN (/\ Has(q, f)
                /\ ~IsNull(q[f])
                /\ \/ ~OwnMap(RegAtTransform, c)
                   \/ /\ ~IsArray(q[f])
                      /\ StringOf(q[f]) \notin DOMAIN RegAtTransform.maps[c]
                   \/ /\ IsArray(q[f])
                      /\ \A e \in Range(q[f].a) :
                            StringOf(e) \notin DOMAIN RegAtTransform.maps[c])
               => /\ failedAt # "prepare"
                  /\ Len(prep) = Len(args.rows)
                  /\ Has(prep[i], f)
                  /\ prep[i][f] = Null
                  /\ StillWritten(i)

\* C8: array elision.  The prepared row has no array field that links does not
\* declare, keeps every other field of the record as the foreign-key stage left
\* it, and is still written.
C8_ArrayElision ==
    \A i \in 1..Len(prep) :
        LET q == ForeignKeyStage(BeforeFk(i), args.opts.foreignKeys, RegAtTransform)
            linked == LinkFields(args.opts.links)
        IN /\ \A f \in DOMAIN prep[i] : IsArray(prep[i][f]) => f \in linked
           /\ \A f \in DOMAIN q :
                 IF IsArray(q[f]) /\ f \notin linked
                 THEN ~Has(prep[i], f)
                 ELSE Has(prep[i], f) /\ prep[i][f] = q[f]
           /\ (\E f \in DOMAIN q : IsArray(q[f]) /\ f \notin linked) => StillWritten(i)

\* some Map of the registry has the id
Resolvable(reg, id) == \E c \in DOMAIN reg.maps : id \in DOMAIN reg.maps[c]

\* the elements of a record's array field, none when the field is no array
ArrayOf(raw, field) ==
    IF Has(raw, field) /\ IsArray(raw[field])
    THEN [p \in 1..Len(raw[field].a) |-> StringOf(raw[field].a[p])]
    ELSE <<>>

\* every element of every declared array of the call's rows is resolvable
FullyResolvable ==
    \A k \in 1..Len(args.opts.links) : \A i \in 1..Len(args.rows) :
        \A e \in Range(ArrayOf(args.rows[i], args.opts.links[k].field)) :
            Resolvable(idsRegistry, e)

\* the number of elements of the field over rows i..Len(rows)
RECURSIVE ElementCount(_, _, _)
ElementCount(rows, field, i) ==
    IF i > Len(rows) THEN 0
    ELSE Len(ArrayOf(rows[i], field)) + ElementCount(rows, field, i + 1)

\* the link rows the call has added to a link table
LinksWritten(table) == Len(db.links[table]) - Len(snap.links[table])

\* the record's own target id is registered for the call's collection
SelfRegistered(raw) ==
    /\ HasMongoId(raw)
    /\ StringOf(raw["mongo_id"]) \in DOMAIN MapOf(idsRegistry, args.self)

\* C9: link completeness under full resolution.  After a call that returned, if
\* every element of every declared array is resolvable, the link rows written
\* for the field are as many as the elements of the field over all the records.
C9_LinkCompleteness ==
    (/\ pc = "idle"
     /\ outcome \in {"committed", "lost"}
     /\ FullyResolvable)
    => \A k \in 1..Len(args.opts.links) :
          LinksWritten(args.opts.links[k].table)
             = ElementCount(args.rows, args.opts.links[k].field, 1)

\* the target ids registered for a source id, in any collection's Map
RegisteredIds(reg, id) == {reg.maps[c][id] : c \in {d \in DOMAIN reg.maps : id \in DOMAIN reg.maps[d]}}

\* the resolvable elements of a record's array, by position
ResolvableAt(raw, field) ==
    {p \in 1..Len(ArrayOf(raw, field)) : Resolvable(idsRegistry, ArrayOf(raw, field)[p])}

\* the link rows a registered record should get, over rows i..Len(rows)
RECURSIVE ResolvableCount(_, _, _)
ResolvableCount(rows, field, i) ==
    IF i > Len(rows) THEN 0
    ELSE (IF SelfRegistered(rows[i]) THEN Cardinality(ResolvableAt(rows[i], field)) ELSE 0)
            + ResolvableCount(rows, field, i + 1)

\* the registered target id of a record of the call's collection
OwnId(raw) == idsRegistry.maps[args.self][StringOf(raw["mongo_id"])]

\* C10: partial link resolution.  The link rows built for a declared field hold,
\* for every record with a registered target id, one row {selfIdCol: the record's
\* id, foreignIdCol: the element's registered id} per resolvable element and no
\* row for an unresolvable element; an unresolvable element does not fail the
\* call (a call that built link rows fails only when a later link transform
\* throws or COMMIT is rejected), and when the store accepts the insert and the
\* call commits, these rows are in the link table and the record's primary row
\* is in its table.
C10_PartialLinkResolution ==
    \A k \in 1..Len(linkLog) :
        LET link == args.opts.links[k]
            built == linkLog[k].rows
        IN /\ Len(built) = ResolvableCount(args.rows, link.field, 1)
           /\ \A i \in 1..Len(args.rows) : \A p \in ResolvableAt(args.rows[i], link.field) :
                 SelfRegistered(args.rows[i]) =>
                    \E j \in 1..Len(built) :
                       /\ built[j][link.selfIdCol] = OwnId(args.rows[i])
                       /\ built[j][link.foreignIdCol]
                             \in RegisteredIds(idsRegistry, ArrayOf(args.rows[i], link.field)[p])
           /\ \A j \in 1..Len(built) :
                 \E i \in 1..Len(args.rows) : \E p \in ResolvableAt(args.rows[i], link.field) :
                    /\ SelfRegistered(args.rows[i])
                    /\ built[j][link.selfIdCol] = OwnId(args.rows[i])
                    /\ built[j][link.foreignIdCol]
                          \in RegisteredIds(idsRegistry, ArrayOf(args.rows[i], link.field)[p])
           /\ failedAt \in {"none", "transform", "commit"}
           /\ (pc = "idle" /\ outcome = "committed") =>
                 /\ db.links[link.table] = snap.links[link.table] \o built
                 /\ \A i \in 1..Len(args.rows) :
                       (SelfRegistered(args.rows[i]) /\ ResolvableAt(args.rows[i], link.field) # {})
                          => \E x \in db.tables[args.table] : x.id = OwnId(args.rows[i])

\* C10 witness: an employee with awards a1 (registered) and a9 (not) is committed
\* with one link row, to a1
C10_Witness ==
    /\ pc = "idle"
    /\ outcome = "committed"
    /\ \E i \in 1..Len(args.rows) : args.rows[i] = E2
    /\ "a1" \in DOMAIN MapOf(idsRegistry, "awards")
    /\ ~Resolvable(idsRegistry, "a9")
    /\ Len(linkLog) = 1
    /\ Cardinality({j \in 1..Len(linkLog[1].rows) :
                      linkLog[1].rows[j]["employee_id"] = OwnId(E2)}) = 1
    /\ \E j \in 1..Len(db.links["emplyees__awards"]) :
          /\ db.links["emplyees__awards"][j]["employee_id"] = OwnId(E2)
          /\ db.links["emplyees__awards"][j]["award_id"] = idsRegistry.maps["awards"]["a1"]

\* C11: deferred registry visibility.  While the transaction of a call is open the
\* registry holds for the call's collection no entry that the call added: the
\* collection's Map is the one the call found.
C11_DeferredVisibility ==
    pc \in {"begin", "hasColumn", "alter", "transform", "query", "insert", "links"} =>
        DOMAIN MapOf(idsRegistry, args.self) = DOMAIN MapOf(regBefore, args.self)

\* C12: registry population.  After a call has committed, the Map of its
\* collection has, for every input record that carries a mongo_id, the id of the
\* table row that carries that mongo_id.
C12_RegistryPopulated ==
    (pc = "idle" /\ outcome = "committed") =>
        /\ OwnMap(idsRegistry, args.self)
        /\ \A i \in 1..Len(args.rows) :
              HasMongoId(args.rows[i]) =>
                 LET m == MongoIdString(args.rows[i])
                 IN /\ m \in DOMAIN idsRegistry.maps[args.self]
                    /\ \E x \in db.tables[args.table] :
                          /\ x.id = idsRegistry.maps[args.self][m]
                          /\ HasMongoId(x.rec)
                          /\ MongoIdString(x.rec) = m

\* C12 witness: a call has committed that skipped one record and inserted another,
\* with a registry that had neither
C12_Witness ==
    /\ pc = "idle"
    /\ outcome = "committed"
    /\ regBefore = EmptyRegistry
    /\ Len(skipped) = 1
    /\ Len(batch) = 1
    /\ Cardinality(DOMAIN idsRegistry.maps[args.self]) = 2

\* the collection the call's options declare for a link's array field: its twin
\* entry in foreignKeys; "" when there is none
RECURSIVE OwningCollection(_, _, _)
OwningCollection(fks, field, k) ==
    IF k > Len(fks) THEN ""
    ELSE IF fks[k][1] = field THEN fks[k][2]
    ELSE OwningCollection(fks, field, k + 1)

\* C13: link resolution prefers the declared collection.  When the options
\* declare the collection a link's array field points to, every link row built
\* for the field holds, as foreign id, the target id registered in that
\* collection's Map for an element of the record's array.
C13_LinkPrefersOwner ==
    \A k \in 1..Len(linkLog) :
        LET link == args.opts.links[k]
            c == OwningCollection(args.opts.foreignKeys, link.field, 1)
            built == linkLog[k].rows
        IN c # "" =>
             \A j \in 1..Len(built) :
                \E i \in 1..Len(args.rows) :
                   \E p \in 1..Len(ArrayOf(args.rows[i], link.field)) :
                      LET e == ArrayOf(args.rows[i], link.field)[p]
                      IN /\ SelfRegistered(args.rows[i])
                         /\ built[j][link.selfIdCol] = OwnId(args.rows[i])
                         /\ e \in DOMAIN MapOf(idsRegistry, c)
                         /\ built[j][link.foreignIdCol] = MapOf(idsRegistry, c)[e]

\* C14: link re-run under a uniqueness constraint.  When a call repeats a call
\* that committed and its link insert is rejected for a duplicate pair, the call
\* adds no link row, the rejection does not fail the call (the call fails only
\* when a later link transform throws or COMMIT is rejected), and once the call
\* has returned every record that carries a mongo_id has its row in the table,
\* the table being as it was when the call began.
C14_LinkRerunConflict ==
    \A k \in 1..Len(linkLog) :
        (args \in done /\ linkLog[k].error = "duplicate") =>
            /\ ~linkLog[k].stored
            /\ db.links[args.opts.links[k].table] = snap.links[args.opts.links[k].table]
            /\ failedAt # "link"
            /\ outcome = "error" => failedAt \in {"transform", "commit"}
            /\ pc = "idle" =>
                  /\ db.tables = snap.tables
                  /\ \A i \in 1..Len(args.rows) :
                        HasMongoId(args.rows[i]) =>
                           \E x \in db.tables[args.table] :
                              /\ HasMongoId(x.rec)
                              /\ MongoIdString(x.rec) = MongoIdString(args.rows[i])

\* C14 witness: the repeated call of an employee with two awards has returned
\* after its link insert was rejected for duplicates; the two link rows of the
\* first call are all the link table has
C14_Witness ==
    /\ pc = "idle"
    /\ args \in done
    /\ outcome = "lost"
    /\ Len(linkLog) = 1
    /\ linkLog[1].error = "duplicate"
    /\ Len(linkLog[1].rows) = 2
    /\ Len(db.links["emplyees__awards"]) = 2
    /\ \E x \in db.tables["employees"] : HasMongoId(x.rec) /\ x.rec["mongo_id"] = Str("e1")

\* C15: a link insert error that is not a duplicate-key conflict is fatal.  After
\* a call whose link insert was rejected with another error, the call has
\* returned that error and the store is as it was before the call.
C15_LinkErrorFatal ==
    (pc = "idle" /\ \E k \in 1..Len(linkLog) : linkLog[k].error = "other") =>
        /\ outcome = "error"
        /\ db = snap

\* C16: flat rows.  No row submitted to the batched insert has an array-valued
\* field, whether the field is declared in links or not.
C16_InsertRowsFlat ==
    pc = "insert" =>
        \A j \in 1..Len(batch) : \A f \in DOMAIN batch[j] : ~IsArray(batch[j][f])

\* row i of the call after the rename stage
AfterRename(i) == RenameStage(args.rows[i], args.opts.rename)

\* the redefine mapper of entry k throws for row i
RedefineThrows(i, k) ==
    LET f == args.opts.redefine[k][1]
    IN /\ Has(AfterRename(i), f)
       /\ ~ApplyMapper(args.opts.redefine[k][2], AfterRename(i)[f], AfterRename(i)).ok

\* the fields the call's options name as foreign keys
FkFields == {args.opts.foreignKeys[k][1] : k \in 1..Len(args.opts.foreignKeys)}

\* C17: redefine failure is local.  When the mapper of a redefine entry throws for
\* a record, the field keeps the value it had after the rename stage; the other
\* redefine entries are applied; the foreign-key stage runs (a registered id is
\* replaced by its target id) and so does the elision (an undeclared array is
\* left only under a name the links object inherits, where the elision leaves it
\* for any record); the record goes through the upsert and is written when the
\* call commits.
C17_RedefineFailureLocal ==
    \A i \in 1..Len(prep) : \A k \in 1..Len(args.opts.redefine) :
        RedefineThrows(i, k) =>
            LET f == args.opts.redefine[k][1]
                r0 == AfterRename(i)
                r1 == BeforeFk(i)
            IN /\ r1[f] = r0[f]
               /\ (f \notin FkFields /\ ~IsArray(r0[f])) => (Has(prep[i], f) /\ prep[i][f] = r0[f])
               /\ \A k2 \in 1..Len(args.opts.redefine) :
                     LET g == args.opts.redefine[k2][1]
                         res == ApplyMapper(args.opts.redefine[k2][2], r0[g], r0)
                     IN (Has(r0, g) /\ res.ok) => r1[g] = res.v
               /\ \A k3 \in 1..Len(args.opts.foreignKeys) :
                     LET g == args.opts.foreignKeys[k3][1]
                         c == args.opts.foreignKeys[k3][2]
                     IN (/\ Has(r1, g)
                         /\ r1[g].k = "str"
                         /\ r1[g].s \in DOMAIN MapOf(RegAtTransform, c))
                        => prep[i][g] = Num(RegAtTransform.maps[c][r1[g].s])
               /\ \A g \in DOMAIN prep[i] :
                     IsArray(prep[i][g]) =>
                        g \in LinkFields(args.opts.links) \cup ObjectPrototypeNames
               /\ StillWritten(i)

\* C17 witness: an employee whose name mapper threw is committed with its name
\* as it was, its nick mapped (and elided, being an array), its department
\* resolved and its array named constructor kept
C17_Witness ==
    /\ pc = "idle"
    /\ outcome = "committed"
    /\ Len(args.opts.redefine) > 0
    /\ \E i \in 1..Len(args.rows) : args.rows[i] = E3 /\ RedefineThrows(i, 1)
    /\ "d1" \in DOMAIN MapOf(idsRegistry, "departments")
    /\ \E x \in db.tables["employees"] :
          /\ HasMongoId(x.rec)
          /\ x.rec["mongo_id"] = Str("e3")
          /\ x.rec["name"] = Null
          /\ ~Has(x.rec, "nick")
          /\ Has(x.rec, "constructor")
          /\ x.rec["department"] = Num(idsRegistry.maps["departments"]["d1"])

\* C18: source records are not mutated.  Through a call and after it, however it
\* ended, the caller's records are as they were passed, and the link rows of each
\* field come from the records as passed: as many as the resolvable elements of
\* the registered records, each with the id registered for the mongo_id of a
\* record passed and the id registered for an element of that record's array.
C18_SourceRecordsKept ==
    /\ args.rows = given
    /\ \A k \in 1..Len(linkLog) :
          LET link == args.opts.links[k]
              built == linkLog[k].rows
          IN /\ Len(built) = ResolvableCount(given, link.field, 1)
             /\ \A j \in 1..Len(built) :
                   \E i \in 1..Len(given) : \E p \in ResolvableAt(given[i], link.field) :
                      /\ SelfRegistered(given[i])
                      /\ built[j][link.selfIdCol] = OwnId(given[i])
                      /\ built[j][link.foreignIdCol]
                            \in RegisteredIds(idsRegistry, ArrayOf(given[i], link.field)[p])

\* C18 witness: a call has committed whose transformed copy differs from the
\* record passed (a field renamed, a foreign key replaced, an array dropped)
\* and that built link rows from the record's array
C18_Witness ==
    /\ pc = "idle"
    /\ outcome = "committed"
    /\ given = <<E1>>
    /\ Has(given[1], "dept") /\ ~Has(prep[1], "dept")
    /\ Has(prep[1], "department") /\ prep[1]["department"].k = "num"
    /\ Has(given[1], "nick") /\ ~Has(prep[1], "nick")
    /\ Len(linkLog) = 1
    /\ Len(linkLog[1].rows) = 2

\* C19: registry-store consistency.  Between calls, also after a call that failed
\* or was rolled back, every entry of the registry (collection, mongo_id -> id)
\* has in the collection's table a committed row with that id and that mongo_id.
C19_RegistryMatchesStore ==
    pc = "idle" =>
        \A c \in DOMAIN idsRegistry.maps : \A m \in DOMAIN idsRegistry.maps[c] :
            \E x \in db.tables[c] :
                /\ x.id = idsRegistry.maps[c][m]
                /\ MongoIdString(x.rec) = m

\* C20: empty input is a no-op.  After a call whose rows argument was empty or
\* no array, the call has returned without a transaction, the store is as it
\* was, and the registry is as it was: no Map was created or changed for the
\* call's collection.
C20_EmptyInputNoOp ==
    (outcome # "none" /\ (~args.isArray \/ args.rows = <<>>)) =>
        /\ pc = "idle"
        /\ outcome = "nothing"
        /\ db = snap
        /\ idsRegistry = regBefore
        /\ ~OwnMap(regBefore, args.self) => ~OwnMap(idsRegistry, args.self)

\* C20 witness: a call for departments with rows that are no array has returned,
\* in a run that has registered other collections; departments has no Map
C20_Witness ==
    /\ pc = "idle"
    /\ outcome = "nothing"
    /\ ~args.isArray
    /\ args.self = "departments"
    /\ idsRegistry # EmptyRegistry
    /\ ~OwnMap(idsRegistry, "departments")

====
